---- MODULE Spec2Model ----
(***************************************************************************)
(* logify: structured logging core.                                        *)
(*   - Context Store   (src/src/middleware/express.ts, lines 36-57)        *)
(*   - Logger Core and Child Logger Factory (src/src/logger.ts)            *)
(*   - Remote Transport: construction, log and push (src/unnamed/part_002) *)
(* JavaScript values are modelled as records tagged by their type          *)
(* ("string", "undefined", "number", "object", "error").                   *)
(***************************************************************************)
EXTENDS Integers, Sequences, FiniteSets, TLC

VARIABLES
  config,          \* the LogifyConfig given to createLogger
  loki,            \* createLogger's `loki`: TRUE iff a LokiTransport instance exists
  loggers,         \* logger values: loggers[1] is the root, the others come from child()
  written,         \* the lines the most recent log call wrote to process.stdout
  pushed,          \* the loki.log(line, labels) calls the most recent log call started
  stderr,          \* console.error diagnostics, in order
  requests,        \* the HTTP requests issued by LokiTransport.push, in order
  stackTraceCache, \* the module inference cache: keys in insertion order
  lastCall,        \* history: the arguments and surroundings of the most recent log call
  cur,             \* AsyncLocalStorage: the store of the executing async resource
  frames,          \* the active storage.run() calls of the executing callback, innermost last
  scope,           \* history: the runWithContext scope the executing code belongs to (0: none)
  running,         \* TRUE while a callback (or the main script) executes
  tasks,           \* continuations scheduled and not yet run, each with its captured store
  nTasks,          \* number of continuations scheduled so far
  scopeCtx,        \* history: scopeCtx[s] is the context given to the s-th runWithContext
  nSets,           \* number of setContext calls made so far
  lastSet,         \* history: the most recent setContext call
  stdout,          \* process.stdout under a spy: the lines written since the spy was installed (spied), in order
  processEnv,      \* process.env, the process-wide environment
  clock,           \* Date.now(): the millisecond clock, as its decimal digits
  userBindings,    \* an object user code holds and passes to child()
  loaded,          \* history: every loadConfig(env) call with the environment it ran in and its outcome
  lastOp           \* history: the most recent call of a configuration or middleware operation

vars == << config, loki, loggers, written, pushed, stderr, requests,
           stackTraceCache, lastCall, cur, frames, scope, running, tasks,
           nTasks, scopeCtx, nSets, lastSet, stdout, processEnv, clock,
           userBindings, loaded, lastOp >>

logVars == << written, pushed, stackTraceCache, lastCall, stdout >>
envVars == << processEnv, clock, userBindings, loaded, lastOp >>
netVars == << requests >>
ctxVars == << cur, frames, scope, running, tasks, nTasks, scopeCtx, nSets, lastSet >>

(***************************************************************************)
(* Bounds of the model.                                                    *)
(***************************************************************************)
MaxLoggers == 3   \* logger values in one behaviour (root included)
MaxScopes  == 2   \* runWithContext calls in one behaviour
MaxTasks   == 2   \* continuations scheduled in one behaviour
MaxSets    == 1   \* setContext calls in one behaviour
MaxPushes  == 2   \* LokiTransport.push calls in one behaviour
MaxSites   == 103 \* distinct call sites that log in one behaviour
MaxLines   == 2   \* lines a spy on process.stdout collects in one behaviour
MaxLoads   == 2   \* distinct loadConfig calls in one behaviour

(***************************************************************************)
(* JavaScript values.                                                      *)
(***************************************************************************)
JUndef == [t |-> "undefined"]
Str(s) == [t |-> "string", v |-> s]
Num(n) == [t |-> "number", v |-> n]
Obj(f) == [t |-> "object", fields |-> f]

\* the object literal {} : a mapping with no keys
EmptyMap == [k \in {} |-> JUndef]

\* x ?? y
Nullish(x) == x.t \in {"undefined", "null"}
Coalesce(x, y) == IF Nullish(x) THEN y ELSE x

\* !x
Falsy(x) == \/ x.t \in {"undefined", "null"}
            \/ x = Str("")
            \/ x = Num(0)

\* { ...f, ...g }
Spread(f, g) == [k \in DOMAIN f \cup DOMAIN g |-> IF k \in DOMAIN g THEN g[k] ELSE f[k]]

\* const { a, b, ...rest } = f : the rest
Rest(f, keys) == [k \in DOMAIN f \ keys |-> f[k]]

\* f.k, undefined when f has no own key k
Get(f, k) == IF k \in DOMAIN f THEN f[k] ELSE JUndef

\* JSON.stringify followed by JSON.parse of a mapping: keys whose value is
\* undefined are dropped, at every level
RECURSIVE JsonMap(_)
JsonValue(v) == IF v.t = "object" THEN Obj(JsonMap(v.fields)) ELSE v
JsonMap(f) == [k \in {j \in DOMAIN f : f[j] # JUndef} |-> JsonValue(f[k])]

(***************************************************************************)
(* Context Store: AsyncLocalStorage<RequestContext>.                       *)
(* A store is undefined (no store) or a RequestContext object.  The fields *)
(* owner and merged are history: the scope whose code installed the object *)
(* and whether setContext built it.                                        *)
(***************************************************************************)
NoStore == JUndef

RequestContext(requestId, ctid, owner, merged) ==
  [t |-> "object", fields |-> [requestId |-> requestId, ctid |-> ctid],
   owner |-> owner, merged |-> merged]

\* the contexts user code passes to runWithContext
CtxInputs == { [requestId |-> Str("r1"), ctid |-> Str("c1")],
               [requestId |-> JUndef,    ctid |-> Str("c2")] }

\* the partial contexts user code passes to setContext
PartialInputs == { [requestId |-> Str("r3")],
                   [ctid |-> JUndef] }

\* storage.run(ctx, fn): the store that is active while fn runs
runWithContext(ctx, s) == RequestContext(ctx.requestId, ctx.ctid, s, FALSE)

\* storage.run without the restore of the previous store
storageRunExitKeep(saved, inner) == inner

\* storage.run(ctx, fn): the store that is active again once fn has returned
storageRunExit(saved, inner) == saved

\* a new async resource that starts without a store
storagePropagateNone(store) == NoStore

\* a new async resource takes the store of the resource that creates it
storagePropagate(store) == store

\* storage.getStore() ?? { requestId: undefined, ctid: undefined }
getContext(store) ==
  Coalesce(store, RequestContext(JUndef, JUndef, 0, FALSE))

\* const merged = { ...getContext(), ...next }; storage.enterWith(merged)
setContext(store, next, s) ==
  LET merged == Spread(getContext(store).fields, next)
  IN  RequestContext(merged.requestId, merged.ctid, s, TRUE)

(***************************************************************************)
(* Steps of user code and of the event loop around the Context Store.      *)
(***************************************************************************)
\* runWithContext(ctx, fn) is entered
RunWithContext(ctx) ==
  /\ running
  /\ Len(scopeCtx) < MaxScopes
  /\ frames' = Append(frames, [saved |-> cur, scope |-> scope, seen |-> getContext(cur).fields])
  /\ scopeCtx' = Append(scopeCtx, ctx)
  /\ scope' = Len(scopeCtx) + 1
  /\ cur' = runWithContext(ctx, Len(scopeCtx) + 1)
  /\ UNCHANGED << running, tasks, nTasks, nSets, lastSet >>
  /\ UNCHANGED << config, loki, loggers, stderr >>
  /\ UNCHANGED envVars
  /\ UNCHANGED netVars
  /\ UNCHANGED logVars

\* the fn of the innermost runWithContext returns
ReturnFromRun ==
  /\ running
  /\ frames # << >>
  /\ LET top == frames[Len(frames)]
     IN  /\ cur' = storageRunExit(top.saved, cur)
         /\ scope' = top.scope
  /\ frames' = SubSeq(frames, 1, Len(frames) - 1)
  /\ UNCHANGED << running, tasks, nTasks, scopeCtx, nSets, lastSet >>
  /\ UNCHANGED << config, loki, loggers, stderr >>
  /\ UNCHANGED envVars
  /\ UNCHANGED netVars
  /\ UNCHANGED logVars

\* the executing code schedules a continuation (timer, promise reaction, I/O callback)
Schedule ==
  /\ running
  /\ nTasks < MaxTasks
  /\ nTasks' = nTasks + 1
  /\ tasks' = tasks \cup { [id |-> nTasks + 1, store |-> storagePropagate(cur), scope |-> scope] }
  /\ UNCHANGED << cur, frames, scope, running, scopeCtx, nSets, lastSet >>
  /\ UNCHANGED << config, loki, loggers, stderr >>
  /\ UNCHANGED envVars
  /\ UNCHANGED netVars
  /\ UNCHANGED logVars

\* the executing callback returns to the event loop
Finish ==
  /\ running
  /\ frames = << >>
  /\ running' = FALSE
  /\ cur' = NoStore
  /\ scope' = 0
  /\ UNCHANGED << frames, tasks, nTasks, scopeCtx, nSets, lastSet >>
  /\ UNCHANGED << config, loki, loggers, stderr >>
  /\ UNCHANGED envVars
  /\ UNCHANGED netVars
  /\ UNCHANGED logVars

\* the event loop runs a scheduled continuation, in any order
Dispatch(task) ==
  /\ ~running
  /\ task \in tasks
  /\ running' = TRUE
  /\ cur' = task.store
  /\ scope' = task.scope
  /\ tasks' = tasks \ {task}
  /\ UNCHANGED << frames, nTasks, scopeCtx, nSets, lastSet >>
  /\ UNCHANGED << config, loki, loggers, stderr >>
  /\ UNCHANGED envVars
  /\ UNCHANGED netVars
  /\ UNCHANGED logVars

\* user code calls setContext(next)
SetContext(next) ==
  /\ running
  /\ nSets < MaxSets
  /\ nSets' = nSets + 1
  /\ cur' = setContext(cur, next, scope)
  /\ lastSet' = [n |-> nSets + 1, next |-> next, before |-> getContext(cur).fields,
                 scope |-> scope]
  /\ UNCHANGED << frames, scope, running, tasks, nTasks, scopeCtx >>
  /\ UNCHANGED << config, loki, loggers, stderr >>
  /\ UNCHANGED envVars
  /\ UNCHANGED netVars
  /\ UNCHANGED logVars

(***************************************************************************)
(* Header propagation (src/src/config.ts, buildPropagationHeaders).        *)
(***************************************************************************)
\* the header names of the configuration handed to buildPropagationHeaders
HeaderOptions ==
  { [requestIdHeader |-> "x-request-id", ctidHeader |-> "x-correlation-id"],
    [requestIdHeader |-> "x-rid",        ctidHeader |-> "x-ctid"] }

\* const { requestId, ctid } = getContext(); if (requestId) headers[...] = requestId;
\* if (ctid) headers[...] = ctid; return headers
buildPropagationHeaders(store, opts) ==
  LET ctx     == getContext(store).fields
      headers == IF Falsy(ctx.requestId) THEN EmptyMap
                 ELSE (opts.requestIdHeader :> ctx.requestId)
  IN  IF Falsy(ctx.ctid) THEN headers
      ELSE Spread(headers, (opts.ctidHeader :> ctx.ctid))

\* user code calls buildPropagationHeaders(opts)
BuildPropagationHeaders(opts) ==
  /\ running
  /\ lastOp' = [op |-> "buildPropagationHeaders", opts |-> opts,
                context |-> getContext(cur).fields, scope |-> scope,
                depth |-> Len(frames),
                result |-> buildPropagationHeaders(cur, opts)]
  /\ UNCHANGED << processEnv, clock, userBindings, loaded >>
  /\ UNCHANGED << config, loki, loggers, stderr >>
  /\ UNCHANGED netVars
  /\ UNCHANGED logVars
  /\ UNCHANGED ctxVars

(***************************************************************************)
(* Express middleware (src/src/middleware/express.ts, lines 6-33).         *)
(* A header value whose characters matter is a string given by its         *)
(* sequence of one-character strings.                                      *)
(***************************************************************************)
Text(chars) == [t |-> "string", chars |-> chars]

\* the characters of (n).toString(36) for n in 0..35, in order
Base36 ==
  << "0", "1", "2", "3", "4", "5", "6", "7", "8", "9", "a", "b", "c", "d",
     "e", "f", "g", "h", "i", "j", "k", "l", "m", "n", "o", "p", "q", "r",
     "s", "t", "u", "v", "w", "x", "y", "z" >>

\* /^[a-z0-9]{32}$/.test(s)
CtidPattern(chars) ==
  /\ Len(chars) = 32
  /\ \A k \in 1..Len(chars) : \E n \in 1..Len(Base36) : chars[k] = Base36[n]

\* String.prototype.toLowerCase() on the strings of the model
toLowerCase(name) ==
  CASE name = "X-Request-Id"     -> "x-request-id"
    [] name = "X-Correlation-Id" -> "x-correlation-id"
    [] name = "TRUE"             -> "true"
    [] name = "False"            -> "false"
    [] OTHER                     -> name

\* the loop of generateCtid: one base-36 character per byte, until 32
RECURSIVE ctidChars(_, _, _)
ctidChars(bytes, i, out) ==
  IF i <= Len(bytes) /\ Len(out) < 32
  THEN ctidChars(bytes, i + 1, Append(out, Base36[(bytes[i] % 36) + 1]))
  ELSE out

\* while (out.length < 32) out += '0'
RECURSIVE padZero(_)
padZero(out) == IF Len(out) < 32 THEN padZero(Append(out, "0")) ELSE out

\* generateCtid() when randomBytes(32) returns `bytes`
generateCtid(bytes) == SubSeq(padZero(ctidChars(bytes, 1, << >>)), 1, 32)

\* the middleware that takes a truthy inbound ctid header as it is
middlewareContextTrusting(opts, headers, uuid, bytes) ==
  LET existingCtid == Get(headers, toLowerCase(opts.ctidHeader))
  IN  [requestId |-> uuid,
       ctid      |-> IF ~Falsy(existingCtid) /\ existingCtid # Text(<< >>)
                     THEN existingCtid
                     ELSE Text(generateCtid(bytes))]

\* logifyExpressMiddleware: the context it builds from the inbound headers,
\* when randomUUID() returns `uuid` and randomBytes(32) returns `bytes`
middlewareContext(opts, headers, uuid, bytes) ==
  LET existingCtid == Get(headers, toLowerCase(opts.ctidHeader))
  IN  [requestId |-> uuid,
       ctid      |-> IF /\ ~Falsy(existingCtid)
                        /\ existingCtid # Text(<< >>)
                        /\ CtidPattern(existingCtid.chars)
                     THEN existingCtid
                     ELSE Text(generateCtid(bytes))]

\* the header names createExpressMiddleware is configured with
MiddlewareOptions ==
  { [requestIdHeader |-> "X-Request-Id", ctidHeader |-> "X-Correlation-Id"],
    [requestIdHeader |-> "x-rid",        ctidHeader |-> "x-ctid"] }

\* 32 times the character c
Repeat(c, n) == [k \in 1..n |-> c]

\* inbound ctid header values: a well-formed one, one too short, one too
\* long, one with an upper-case letter, one with a dash, the empty string
CtidHeaderInputs ==
  { Text([k \in 1..32 |-> Base36[k]]),
    Text(Repeat("a", 31)),
    Text(Repeat("0", 33)),
    Text([k \in 1..32 |-> IF k = 32 THEN "A" ELSE "a"]),
    Text([k \in 1..32 |-> IF k = 9 THEN "-" ELSE "f"]),
    Text(<< >>) }

\* inbound requests: headers as Node presents them, with lower-case names
RequestInputs ==
  { EmptyMap, ("x-request-id" :> Str("uuid-1")) }
  \cup { ("x-correlation-id" :> v) : v \in CtidHeaderInputs }
  \cup { ("x-ctid" :> v) @@ ("x-rid" :> Str("client-1")) :
            v \in { Text(Repeat("z", 32)), Text(Repeat("a", 31)) } }

\* the values randomUUID() returns
UuidInputs == { Str("uuid-1"), Str("uuid-2") }

\* the values randomBytes(32) returns
ByteInputs ==
  { [k \in 1..32 |-> 255], [k \in 1..32 |-> (k * 37) % 256] }

\* an inbound request reaches logifyExpressMiddleware configured with opts:
\* it overwrites the two headers and calls next() inside runWithContext
Middleware(opts, headers, uuid, bytes) ==
  /\ running
  /\ Len(scopeCtx) < MaxScopes
  /\ \A s \in 1..Len(scopeCtx) : scopeCtx[s].requestId # uuid
  /\ LET ctx == middlewareContext(opts, headers, uuid, bytes)
     IN  /\ frames' = Append(frames, [saved |-> cur, scope |-> scope,
                                      seen |-> getContext(cur).fields])
         /\ scopeCtx' = Append(scopeCtx, ctx)
         /\ scope' = Len(scopeCtx) + 1
         /\ cur' = runWithContext(ctx, Len(scopeCtx) + 1)
         /\ lastOp' = [op |-> "middleware", opts |-> opts, headers |-> headers,
                       uuid |-> uuid, bytes |-> bytes,
                       headersAfter |->
                         Spread(Spread(headers, (toLowerCase(opts.requestIdHeader) :> ctx.requestId)),
                                (toLowerCase(opts.ctidHeader) :> ctx.ctid)),
                       scope |-> Len(scopeCtx) + 1,
                       context |-> getContext(runWithContext(ctx, Len(scopeCtx) + 1)).fields]
  /\ UNCHANGED << running, tasks, nTasks, nSets, lastSet >>
  /\ UNCHANGED << processEnv, clock, userBindings, loaded >>
  /\ UNCHANGED << config, loki, loggers, stderr >>
  /\ UNCHANGED netVars
  /\ UNCHANGED logVars

(***************************************************************************)
(* Remote Transport construction and createLogger.                         *)
(***************************************************************************)
\* the endpoint URLs of the model that `new URL('/loki/api/v1/push', url)` accepts
ParsableUrls == { Str("http://loki:3100"), Str("https://loki.example") }

\* the values of config.loki?.url in the model: no URL, a URL that does not
\* parse, a URL that parses
UrlInputs == { JUndef, Str(""), Str("not a url"), Str("http://loki:3100") }

\* new LokiTransport(cfg) that does not parse the URL
LokiTransportLenient(cfg) ==
  IF Falsy(cfg.lokiUrl) THEN "LOKI_URL is required for loki transport"
  ELSE "ok"

\* new LokiTransport(cfg): "ok", or the message of the Error it throws
LokiTransport(cfg) ==
  IF Falsy(cfg.lokiUrl) THEN "LOKI_URL is required for loki transport"
  ELSE IF cfg.lokiUrl \notin ParsableUrls THEN "Invalid Loki URL: " \o cfg.lokiUrl.v
  ELSE "ok"

\* the Error object that `new LokiTransport(cfg)` throws
ConstructionError(cfg) ==
  [t |-> "error", name |-> Str("Error"), message |-> Str(LokiTransport(cfg))]

\* a console.error call: its text, the error value it prints and, as
\* history, the request whose failure it reports (0: none)
Diagnostic(text, error, request) == [text |-> text, error |-> error, request |-> request]

\* createLogger(config): whether `loki` is set, and what console.error received
createLogger(cfg) ==
  IF cfg.transport = "loki"
  THEN IF LokiTransport(cfg) = "ok"
       THEN [loki |-> TRUE,  stderr |-> << >>]
       ELSE [loki |-> FALSE,
             stderr |-> << Diagnostic("Failed to initialize Loki transport:",
                                      ConstructionError(cfg), 0) >>]
  ELSE [loki |-> FALSE, stderr |-> << >>]

\* new LokiTransportError(message, statusCode)
LokiTransportError(message, statusCode) ==
  [t |-> "error", name |-> Str("LokiTransportError"), message |-> Str(message),
   statusCode |-> statusCode]

\* this.baseLabels = { app: 'logify', ...cfg.loki.labels }
baseLabels(cfg) ==
  Spread([app |-> Str("logify")],
         IF Nullish(cfg.lokiLabels) THEN EmptyMap ELSE cfg.lokiLabels.fields)

\* the decimal digits of a natural number, most significant first
RECURSIVE Digits(_)
Digits(n) == IF n < 10 THEN << n >> ELSE Append(Digits(n \div 10), n % 10)

\* BigInt multiplication of the number with decimal digits ds by m, plus carry
RECURSIVE MulDigits(_, _, _)
MulDigits(ds, m, carry) ==
  IF ds = << >>
  THEN IF carry = 0 THEN << >> ELSE Digits(carry)
  ELSE LET p == ds[Len(ds)] * m + carry
       IN  Append(MulDigits(SubSeq(ds, 1, Len(ds) - 1), m, p \div 10), p % 10)

\* BigInt.prototype.toString(): the decimal string of the digits ds
RECURSIVE DecimalString(_)
DecimalString(ds) ==
  IF ds = << >> THEN "" ELSE ToString(ds[1]) \o DecimalString(Tail(ds))

\* the timestamp in microseconds: the clock multiplied by 1,000
nowMicros == Str(DecimalString(MulDigits(clock, 1000, 0)))

\* (BigInt(Date.now()) * 1_000_000n).toString()
nowNanos == Str(DecimalString(MulDigits(clock, 1000000, 0)))

\* LokiTransport.log in which a base label wins over a call-supplied one
lokiLogBaseWins(cfg, line, labels) ==
  [stream |-> Spread(labels, baseLabels(cfg)),
   values |-> << << nowNanos, line >> >>]

\* LokiTransport.log(line, labels): the entry handed to push
lokiLog(cfg, line, labels) ==
  [stream |-> Spread(baseLabels(cfg), labels),
   values |-> << << nowNanos, line >> >>]

\* LokiTransport.push(line): the request it writes and ends, with the promise
\* it returns.  conn is the state of the connection: "open", "ended" (the
\* response has ended), "errored", "destroyed".  caught tells whether the
\* caller attached a rejection handler; reaction tells what became of a
\* rejection ("reported" by the handler, or "unhandled").  History: call is
\* the (line, labels) of the LokiTransport.log call, events the events
\* delivered to the request.
lokiPush(entry, caught, call) ==
  [method   |-> "POST",
   path     |-> "/loki/api/v1/push",
   body     |-> [streams |-> << entry >>],
   conn     |-> "open",
   promise  |-> "pending",
   error    |-> JUndef,
   caught   |-> caught,
   reaction |-> "none",
   call     |-> call,
   events   |-> << >>]

\* res.on('end') with the upper limit of the success range included
onResponseEndInclusive(statusCode) ==
  IF statusCode # 0 /\ statusCode >= 200 /\ statusCode <= 300
  THEN [promise |-> "resolved", error |-> JUndef]
  ELSE [promise |-> "rejected",
        error   |-> LokiTransportError("Loki push failed: " \o ToString(statusCode),
                                       Num(statusCode))]

\* res.on('end'): resolve on a 2xx status, reject with the status otherwise
onResponseEnd(statusCode) ==
  IF statusCode # 0 /\ statusCode >= 200 /\ statusCode < 300
  THEN [promise |-> "resolved", error |-> JUndef]
  ELSE [promise |-> "rejected",
        error   |-> LokiTransportError("Loki push failed: " \o ToString(statusCode),
                                       Num(statusCode))]

\* req.on('error')
onRequestError(message) ==
  [promise |-> "rejected",
   error   |-> LokiTransportError("Loki request failed: " \o message, JUndef)]

\* req.on('timeout'), after req.destroy()
onRequestTimeout ==
  [promise |-> "rejected", error |-> LokiTransportError("Loki request timeout", JUndef)]

\* resolve() / reject() of the promise of push: only the first call settles
\* it; a rejection runs the handler of .catch when there is one
settle(req, outcome) ==
  IF req.promise # "pending" THEN req
  ELSE [req EXCEPT !.promise  = outcome.promise,
                   !.error    = outcome.error,
                   !.reaction = IF outcome.promise # "rejected" THEN "none"
                                ELSE IF req.caught THEN "reported" ELSE "unhandled"]

\* the response statuses, the messages of the 'error' event
StatusInputs == { 199, 200, 299, 300 }
ErrorMessages == { "connect ECONNREFUSED", "socket hang up" }

\* the root logger value: baseBindings = {}, baseModule = undefined.
\* chain is history: the bindings objects given to child() from the root down
\* shares is TRUE iff the logger's bindings object is the very object that
\* user code handed to child(), so that changes of that object show in it
RootLogger == [bindings |-> EmptyMap, module |-> JUndef, chain |-> << >>,
               shares |-> FALSE]

(***************************************************************************)
(* Logger Core.                                                            *)
(***************************************************************************)
Levels == { "debug", "info", "warn", "error" }

order == << "debug", "info", "warn", "error" >>

\* Array.prototype.indexOf
IndexOf(seq, x) ==
  IF \E i \in 1..Len(seq) : seq[i] = x
  THEN (CHOOSE i \in 1..Len(seq) : seq[i] = x /\ \A j \in 1..(i - 1) : seq[j] # x) - 1
  ELSE -1

\* the filter that only tests that the incoming level is a known one
levelAllowsAny(current, incoming) == IndexOf(order, incoming) >= 0

\* the filter with the comparison made strict
levelAllowsStrict(current, incoming) == IndexOf(order, incoming) > IndexOf(order, current)

levelAllows(current, incoming) == IndexOf(order, incoming) >= IndexOf(order, current)

ErrorObject(message, cause) ==
  [t |-> "error", name |-> Str("Error"), message |-> Str(message),
   stack |-> Str("Error: " \o message), cause |-> cause]

extractErrorDetails(error) ==
  Obj(Spread([name |-> error.name, message |-> error.message, stack |-> error.stack],
             IF ~Falsy(error.cause) THEN [cause |-> error.cause] ELSE EmptyMap))

nowIso == Str("2026-01-01T00:00:00.000Z")

(***************************************************************************)
(* Module Inferencer.  A stack is the sequence of the lines of err.stack;  *)
(* a line is modelled by what the code tests and extracts from it.         *)
(***************************************************************************)
CACHE_SIZE_LIMIT == 100

StackLine(at, logger, parses, functionName, fileStem) ==
  [at |-> at, logger |-> logger, parses |-> parses,
   functionName |-> functionName, fileStem |-> fileStem]

\* "Error"
HeaderLine == StackLine(FALSE, FALSE, FALSE, JUndef, "")
\* "at log (/srv/node_modules/logify/src/logger.ts:121:5)"
LoggerLine == StackLine(TRUE, TRUE, TRUE, Str("log"), "logger")
\* "at handler (/srv/app.ts:10:3)"
SiteHandler == StackLine(TRUE, FALSE, TRUE, Str("handler"), "app")
\* "at /srv/server.ts:20:7"
SiteAnon == StackLine(TRUE, FALSE, TRUE, JUndef, "server")
\* "at <anonymous>"
SiteNoParse == StackLine(TRUE, FALSE, FALSE, JUndef, "")

\* "at f<n> (/srv/app.ts:<n>:3)": the n-th of the call sites of a large program
SiteNo(n) == StackLine(TRUE, FALSE, TRUE, Str("f" \o ToString(n)), "app")

\* new Error().stack at a log call made from the call site `site`
StackOf(site) == << HeaderLine, LoggerLine, LoggerLine, LoggerLine, site >>

\* stack.split('\n').slice(0, 5).join('\n')
CacheKey(stack) == SubSeq(stack, 1, IF Len(stack) < 5 THEN Len(stack) ELSE 5)

\* the loop over the lines: the first line that is no logger frame, starts
\* with 'at ' and matches the frame pattern gives `${fileName}.${funcName}`
ParseStack(stack) ==
  LET usable(l) == ~l.logger /\ l.at /\ l.parses
      fileName(l) == IF l.fileStem = "" THEN "root" ELSE l.fileStem
      funcName(l) == IF Falsy(l.functionName) THEN "func" ELSE l.functionName.v
  IN  IF \E i \in 1..Len(stack) : usable(stack[i])
      THEN LET i == CHOOSE i \in 1..Len(stack) :
                      usable(stack[i]) /\ \A j \in 1..(i - 1) : ~usable(stack[j])
           IN  Str(fileName(stack[i]) \o "." \o funcName(stack[i]))
      ELSE JUndef

\* inferModuleFromStack() that evicts only when the size exceeds the limit
inferModuleFromStackOver(stack, cache) ==
  LET cacheKey == CacheKey(stack)
  IN  IF \E i \in 1..Len(cache) : cache[i].key = cacheKey
      THEN [result |-> cache[CHOOSE i \in 1..Len(cache) : cache[i].key = cacheKey].value,
            cache  |-> cache]
      ELSE LET result  == ParseStack(stack)
               evicted == IF Len(cache) > CACHE_SIZE_LIMIT /\ cache[1].key # << >>
                          THEN Tail(cache) ELSE cache
           IN  [result |-> result,
                cache  |-> IF ~Falsy(result)
                           THEN Append(evicted, [key |-> cacheKey, value |-> result])
                           ELSE evicted]

\* inferModuleFromStack() that makes the entry it reads the newest one
inferModuleFromStackLru(stack, cache) ==
  LET cacheKey == CacheKey(stack)
  IN  IF \E i \in 1..Len(cache) : cache[i].key = cacheKey
      THEN LET i == CHOOSE i \in 1..Len(cache) : cache[i].key = cacheKey
           IN  [result |-> cache[i].value,
                cache  |-> Append(SubSeq(cache, 1, i - 1) \o SubSeq(cache, i + 1, Len(cache)),
                                  cache[i])]
      ELSE LET result  == ParseStack(stack)
               evicted == IF Len(cache) >= CACHE_SIZE_LIMIT /\ cache[1].key # << >>
                          THEN Tail(cache) ELSE cache
           IN  [result |-> result,
                cache  |-> IF ~Falsy(result)
                           THEN Append(evicted, [key |-> cacheKey, value |-> result])
                           ELSE evicted]

\* inferModuleFromStack(): the returned module and the cache afterwards
inferModuleFromStack(stack, cache) ==
  LET cacheKey == CacheKey(stack)
  IN  IF \E i \in 1..Len(cache) : cache[i].key = cacheKey
      THEN [result |-> cache[CHOOSE i \in 1..Len(cache) : cache[i].key = cacheKey].value,
            cache  |-> cache]
      ELSE LET result  == ParseStack(stack)
               evicted == IF Len(cache) >= CACHE_SIZE_LIMIT /\ cache[1].key # << >>
                          THEN Tail(cache) ELSE cache
           IN  [result |-> result,
                cache  |-> IF ~Falsy(result)
                           THEN Append(evicted, [key |-> cacheKey, value |-> result])
                           ELSE evicted]

(***************************************************************************)
(* log(level, message, options) of createLogger and of createChildLogger   *)
(* (the two bodies are the same, over baseBindings/baseModule and over     *)
(* bindings/moduleName), and emit(record).                                 *)
(***************************************************************************)
\* the module of the record: moduleOverride ?? baseModule, then inference
resolveModule(cfg, lg, options, stack, cache) ==
  LET moduleOverride == Get(options, "module")
      moduleName     == Coalesce(moduleOverride, lg.module)
  IN  IF Falsy(moduleName) /\ cfg.autoModule
      THEN LET inf == inferModuleFromStack(stack, cache)
           IN  [module |-> inf.result, cache |-> inf.cache, inferred |-> TRUE]
      ELSE [module |-> moduleName, cache |-> cache, inferred |-> FALSE]

\* finalDetails built without the test for an empty union
buildDetailsAlways(lg, options) ==
  LET error        == Get(options, "error")
      otherOptions == Rest(options, {"module", "error"})
      merged       == Spread(lg.bindings, otherOptions)
  IN  Obj(IF ~Falsy(error)
          THEN Spread(merged, [error |-> extractErrorDetails(error)])
          ELSE merged)

\* finalDetails in which an inherited 'error' binding wins over the supplied error
buildDetailsBindingWins(lg, options) ==
  LET error        == Get(options, "error")
      otherOptions == Rest(options, {"module", "error"})
      hasBindings     == DOMAIN lg.bindings # {}
      hasOtherOptions == DOMAIN otherOptions # {}
  IN  IF hasBindings \/ hasOtherOptions \/ ~Falsy(error)
      THEN LET merged == Spread(lg.bindings, otherOptions)
           IN  Obj(IF ~Falsy(error)
                   THEN Spread([error |-> extractErrorDetails(error)], merged)
                   ELSE merged)
      ELSE JUndef

\* finalDetails
buildDetails(lg, options) ==
  LET error        == Get(options, "error")
      otherOptions == Rest(options, {"module", "error"})
      hasBindings     == DOMAIN lg.bindings # {}
      hasOtherOptions == DOMAIN otherOptions # {}
  IN  IF hasBindings \/ hasOtherOptions \/ ~Falsy(error)
      THEN LET merged == Spread(lg.bindings, otherOptions)
           IN  Obj(IF ~Falsy(error)
                   THEN Spread(merged, [error |-> extractErrorDetails(error)])
                   ELSE merged)
      ELSE JUndef

\* the LogRecord with the two identifiers taken from each other's field
buildRecordSwapped(level, message, context, moduleName, finalDetails) ==
  [timestamp |-> nowIso,
   level     |-> Str(level),
   message   |-> Str(message),
   requestId |-> context.fields.ctid,
   ctid      |-> context.fields.requestId,
   module    |-> moduleName,
   details   |-> finalDetails]

\* the LogRecord built by log()
buildRecord(level, message, context, moduleName, finalDetails) ==
  [timestamp |-> nowIso,
   level     |-> Str(level),
   message   |-> Str(message),
   requestId |-> context.fields.requestId,
   ctid      |-> context.fields.ctid,
   module    |-> moduleName,
   details   |-> finalDetails]

\* emit(record) that writes to process.stdout whatever the transport is
emitAlwaysStdout(cfg, hasLoki, record) ==
  LET line == JsonMap(record)
  IN  [stdout |-> << line >>,
       loki   |-> IF hasLoki
                  THEN << [line |-> line, labels |-> [level |-> record.level],
                           caught |-> TRUE] >>
                  ELSE << >>]

\* emit(record) that writes the line to process.stdout twice
emitTwice(cfg, hasLoki, record) ==
  LET line == JsonMap(record)
  IN  [stdout |-> IF cfg.transport # "loki" THEN << line, line >> ELSE << >>,
       loki   |-> IF hasLoki
                  THEN << [line |-> line, labels |-> [level |-> record.level],
                           caught |-> TRUE] >>
                  ELSE << >>]

\* emit(record) without the .catch on the promise of loki.log
emitNoCatch(cfg, hasLoki, record) ==
  LET line == JsonMap(record)
  IN  [stdout |-> IF cfg.transport # "loki" THEN << line >> ELSE << >>,
       loki   |-> IF hasLoki
                  THEN << [line |-> line, labels |-> [level |-> record.level],
                           caught |-> FALSE] >>
                  ELSE << >>]

\* emit(record): the lines written to process.stdout and the loki.log calls started
emit(cfg, hasLoki, record) ==
  LET line == JsonMap(record)
  IN  [stdout |-> IF cfg.transport # "loki" THEN << line >> ELSE << >>,
       loki   |-> IF hasLoki
                  THEN << [line |-> line, labels |-> [level |-> record.level],
                           caught |-> TRUE] >>
                  ELSE << >>]

\* history of a log call: its arguments, the store and scope it ran in,
\* whether it read the Context Store and ran the Module Inferencer, and the
\* inference cache and the number of requests before it
CallHistory(i, level, options, stack, contextRead, inferenceRun) ==
  [logger |-> i, level |-> level, options |-> options, stack |-> stack,
   context |-> getContext(cur), scope |-> scope, depth |-> Len(frames),
   contextRead |-> contextRead, inferenceRun |-> inferenceRun,
   cacheBefore |-> stackTraceCache, requestsBefore |-> Len(requests)]

\* the requests that the loki.log calls of emit issue
pushAll(cfg, calls) ==
  [n \in 1..Len(calls) |->
     lokiPush(lokiLog(cfg, calls[n].line, calls[n].labels), calls[n].caught,
              [line |-> calls[n].line, labels |-> calls[n].labels])]

\* a call of logger i's method `level` with `options`, made from a call site
\* whose stack is `stack`
Log(i, level, options, stack) ==
  /\ running
  /\ i \in 1..Len(loggers)
  /\ IF ~levelAllows(config.logLevel, level)
     THEN /\ lastCall' = CallHistory(i, level, options, stack, FALSE, FALSE)
          /\ written' = << >>
          /\ pushed' = << >>
          /\ UNCHANGED << stackTraceCache, requests, stdout >>
     ELSE LET context == getContext(cur)
              mod     == resolveModule(config, loggers[i], options, stack, stackTraceCache)
              record  == buildRecord(level, "m", context, mod.module,
                                     buildDetails(loggers[i], options))
              out     == emit(config, loki, record)
          IN  /\ Len(requests) + Len(out.loki) <= MaxPushes
              /\ lastCall' = CallHistory(i, level, options, stack, TRUE, mod.inferred)
              /\ written' = out.stdout
              /\ stdout.spied => Len(stdout.lines) + Len(out.stdout) <= MaxLines
              /\ stdout' = IF stdout.spied
                            THEN [stdout EXCEPT !.lines = @ \o out.stdout]
                            ELSE stdout
              /\ pushed' = out.loki
              /\ stackTraceCache' = mod.cache
              /\ requests' = requests \o pushAll(config, out.loki)
  /\ UNCHANGED << config, loki, loggers, stderr >>
  /\ UNCHANGED envVars
  /\ UNCHANGED ctxVars

\* user code calls log(line, labels) of a LokiTransport built from config
LokiLog(line, labels) ==
  /\ running
  /\ LokiTransport(config) = "ok"
  /\ Len(requests) < MaxPushes
  /\ requests' = Append(requests, lokiPush(lokiLog(config, line, labels), TRUE,
                                           [line |-> line, labels |-> labels]))
  /\ UNCHANGED << config, loki, loggers, stderr >>
  /\ UNCHANGED envVars
  /\ UNCHANGED logVars
  /\ UNCHANGED ctxVars

\* the event loop delivers an event to request r: its handler, which sets
\* the connection state to `conn`, settles the promise with `outcome`, and
\* the rejection handler, if it runs, reports to console.error
Deliver(r, event, conn, outcome) ==
  /\ ~running
  /\ r \in 1..Len(requests)
  /\ LET after == [settle(requests[r], outcome) EXCEPT
                     !.conn = conn, !.events = Append(@, event)]
     IN  /\ requests' = [requests EXCEPT ![r] = after]
         /\ stderr' = IF requests[r].reaction # "reported" /\ after.reaction = "reported"
                      THEN Append(stderr, Diagnostic("Loki transport error:", after.error, r))
                      ELSE stderr
  /\ UNCHANGED << config, loki, loggers >>
  /\ UNCHANGED envVars
  /\ UNCHANGED logVars
  /\ UNCHANGED ctxVars

\* the response to request r ends with status `statusCode`
ResponseEnd(r, statusCode) ==
  /\ r \in 1..Len(requests)
  /\ requests[r].conn = "open"
  /\ Deliver(r, [kind |-> "end", status |-> statusCode], "ended", onResponseEnd(statusCode))

\* request r emits 'error': the connection fails, or the request was destroyed
RequestError(r, message) ==
  /\ r \in 1..Len(requests)
  /\ requests[r].conn \in {"open", "destroyed"}
  /\ Deliver(r, [kind |-> "error", status |-> 0], "errored", onRequestError(message))

\* request r emits 'timeout': the handler destroys the request and rejects
RequestTimeout(r) ==
  /\ r \in 1..Len(requests)
  /\ requests[r].conn = "open"
  /\ Deliver(r, [kind |-> "timeout", status |-> 0], "destroyed", onRequestTimeout)

\* the response to request r is closed before its end (the connection is
\* lost after the headers): push has no handler for it ('aborted', 'close'
\* and 'error' of the response have no listener), so the promise stays as it is
ResponseClosed(r) ==
  /\ r \in 1..Len(requests)
  /\ requests[r].conn = "open"
  /\ Deliver(r, [kind |-> "close", status |-> 0], "closed",
             [promise |-> requests[r].promise, error |-> requests[r].error])

(***************************************************************************)
(* Child Logger Factory: child(bindings) of logger i.                      *)
(***************************************************************************)
\* child() with the parent's value winning on a key collision
childLoggerParentWins(parent, bindings) ==
  LET moduleMaybe == Get(bindings, "module")
      rest        == Rest(bindings, {"module"})
  IN  [bindings |-> Spread(rest, parent.bindings),
       module   |-> IF moduleMaybe.t = "string" THEN moduleMaybe ELSE parent.module,
       chain    |-> Append(parent.chain, bindings),
       shares   |-> FALSE]

\* child() that does not inherit the parent's module
childLoggerOwnModuleOnly(parent, bindings) ==
  LET moduleMaybe == Get(bindings, "module")
      rest        == Rest(bindings, {"module"})
  IN  [bindings |-> Spread(parent.bindings, rest),
       module   |-> IF moduleMaybe.t = "string" THEN moduleMaybe ELSE JUndef,
       chain    |-> Append(parent.chain, bindings),
       shares   |-> FALSE]

\* child() that keeps the object it is given as the child's bindings
childLoggerAliased(parent, bindings) ==
  LET moduleMaybe == Get(bindings, "module")
  IN  [bindings |-> Spread(parent.bindings, Rest(bindings, {"module"})),
       module   |-> IF moduleMaybe.t = "string" THEN moduleMaybe ELSE parent.module,
       chain    |-> Append(parent.chain, bindings),
       shares   |-> TRUE]

\* child(bindings): const { module, ...rest } = bindings;
\* createChildLogger(config, { ...baseBindings, ...rest }, childModule, loki)
childLogger(parent, bindings) ==
  LET moduleMaybe == Get(bindings, "module")
      rest        == Rest(bindings, {"module"})
  IN  [bindings |-> Spread(parent.bindings, rest),
       module   |-> IF moduleMaybe.t = "string" THEN moduleMaybe ELSE parent.module,
       chain    |-> Append(parent.chain, bindings),
       shares   |-> FALSE]

Child(i, bindings) ==
  /\ running
  /\ Len(loggers) < MaxLoggers
  /\ i \in 1..Len(loggers)
  /\ loggers' = Append(loggers, childLogger(loggers[i], bindings))
  /\ UNCHANGED << config, loki, stderr >>
  /\ UNCHANGED envVars
  /\ UNCHANGED netVars
  /\ UNCHANGED logVars
  /\ UNCHANGED ctxVars

\* the bindings a logger that shares the user's object has once the object
\* has become `object`
sharedBindings(lg, object) ==
  IF lg.shares THEN [lg EXCEPT !.bindings = Spread(@, Rest(object, {"module"}))] ELSE lg

\* user code assigns object[key] = value on the object it passed to child()
SetBinding(key, value) ==
  /\ running
  /\ userBindings' = Spread(userBindings, (key :> value))
  /\ loggers' = [j \in 1..Len(loggers) |-> sharedBindings(loggers[j], userBindings')]
  /\ UNCHANGED << processEnv, clock, loaded, lastOp >>
  /\ UNCHANGED << config, loki, stderr >>
  /\ UNCHANGED netVars
  /\ UNCHANGED logVars
  /\ UNCHANGED ctxVars

\* user code deletes object[key] from the object it passed to child()
DeleteBinding(key) ==
  /\ running
  /\ key \in DOMAIN userBindings
  /\ userBindings' = Rest(userBindings, {key})
  /\ loggers' = [j \in 1..Len(loggers) |->
                   IF loggers[j].shares
                   THEN [loggers[j] EXCEPT !.bindings = Rest(@, {key})]
                   ELSE loggers[j]]
  /\ UNCHANGED << processEnv, clock, loaded, lastOp >>
  /\ UNCHANGED << config, loki, stderr >>
  /\ UNCHANGED netVars
  /\ UNCHANGED logVars
  /\ UNCHANGED ctxVars

\* time passes: Date.now() returns `now` from here on
Tick(now) ==
  /\ now # clock
  /\ clock' = now
  /\ UNCHANGED << processEnv, userBindings, loaded, lastOp >>
  /\ UNCHANGED << config, loki, loggers, stderr >>
  /\ UNCHANGED netVars
  /\ UNCHANGED logVars
  /\ UNCHANGED ctxVars

(***************************************************************************)
(* Configuration loading (src/unnamed/part_004).                           *)
(* A call returns an outcome: a value, or a thrown error.                  *)
(***************************************************************************)
Bool(b) == [t |-> "boolean", v |-> b]

Return(value) == [threw |-> FALSE, value |-> value]
Throw(error) == [threw |-> TRUE, error |-> error]

\* class ConfigValidationError extends Error
ConfigValidationError(message, field, value) ==
  [t |-> "error", name |-> "ConfigValidationError", message |-> message,
   field |-> field, value |-> value]

\* new Error(message), and the errors the platform throws
Error(name, message) == [t |-> "error", name |-> name, message |-> message]

\* readEnv(name): process.env[name], undefined when unset or ''
readEnv(penv, name) ==
  LET value == Get(penv, name)
  IN  IF value = JUndef \/ value = Str("") THEN JUndef ELSE value

validateLogLevel(value) ==
  IF value.t = "string" /\ value.v \in Levels THEN Return(value)
  ELSE IF value = JUndef THEN Return(Str("info"))
  ELSE Throw(ConfigValidationError(
               "Invalid log level. Must be one of: debug, info, warn, error",
               "logLevel", value))

validateTransport(value) ==
  IF value.t = "string" /\ value.v \in { "console", "json", "loki" } THEN Return(value)
  ELSE IF value = JUndef THEN Return(Str("console"))
  ELSE Throw(ConfigValidationError(
               "Invalid transport. Must be one of: console, json, loki",
               "transport", value))

validateHeader(value, fieldName, defaultValue) ==
  IF value.t = "string" /\ value.v # "" THEN Return(value)
  ELSE IF value = JUndef THEN Return(Str(defaultValue))
  ELSE Throw(ConfigValidationError(fieldName \o " must be a non-empty string",
                                   fieldName, value))

validateBoolean(value, fieldName, defaultValue) ==
  IF value.t = "boolean" THEN Return(value)
  ELSE IF value = JUndef THEN Return(Bool(defaultValue))
  ELSE Throw(ConfigValidationError(fieldName \o " must be a boolean", fieldName, value))

\* validateUrl: new URL(value) parses, or the error
validateUrl(value) ==
  IF value \in ParsableUrls THEN Return(value)
  ELSE Throw(ConfigValidationError("Invalid URL format", "loki.url", value))

\* the first label of the mapping, in key order, that is not a string
BadLabels(labels) == { k \in DOMAIN labels : labels[k].t # "string" }

\* validateLokiConfig(value), for a mapping `value` of the loki settings
validateLokiConfig(value) ==
  IF value = JUndef THEN Return(JUndef)
  ELSE IF value.t # "object"
  THEN Throw(ConfigValidationError("Loki config must be an object", "loki", value))
  ELSE LET lokiIn    == value.fields
           url       == Get(lokiIn, "url")
           tenantId  == Get(lokiIn, "tenantId")
           basicAuth == Get(lokiIn, "basicAuth")
           labels    == Get(lokiIn, "labels")
       IN  IF url.t # "string" \/ url = Str("")
           THEN Throw(ConfigValidationError(
                  "Loki URL is required and must be a non-empty string", "loki.url", url))
           ELSE IF validateUrl(url).threw THEN validateUrl(url)
           ELSE IF tenantId # JUndef /\ tenantId.t # "string"
           THEN Throw(ConfigValidationError("Loki tenantId must be a string",
                                            "loki.tenantId", tenantId))
           ELSE IF basicAuth # JUndef /\ basicAuth.t # "string"
           THEN Throw(ConfigValidationError("Loki basicAuth must be a string",
                                            "loki.basicAuth", basicAuth))
           ELSE IF labels # JUndef /\ labels.t # "object"
           THEN Throw(ConfigValidationError("Loki labels must be an object",
                                            "loki.labels", labels))
           ELSE IF labels # JUndef /\ BadLabels(labels.fields) # {}
           THEN LET key == CHOOSE k \in BadLabels(labels.fields) : TRUE
                IN  Throw(ConfigValidationError(
                            "Loki label \"" \o key \o "\" must be a string",
                            "loki.labels." \o key, labels.fields[key]))
           ELSE Return(Obj(JsonMap(
                  [url |-> url, tenantId |-> tenantId, basicAuth |-> basicAuth,
                   labels |-> labels])))

\* the first outcome of a sequence that threw, or the last outcome
FirstThrow(outcomes) ==
  IF \E n \in 1..Len(outcomes) : outcomes[n].threw
  THEN outcomes[CHOOSE n \in 1..Len(outcomes) :
                  outcomes[n].threw /\ \A m \in 1..(n - 1) : ~outcomes[m].threw]
  ELSE outcomes[Len(outcomes)]

\* env.LOG_AUTO_MODULE?.toLowerCase() === 'true' ? true : ... === 'false' ? false : undefined
autoModuleOf(raw) ==
  LET lowered == IF raw = JUndef THEN JUndef ELSE Str(toLowerCase(raw.v))
  IN  IF lowered = Str("true") THEN Bool(TRUE)
      ELSE IF lowered = Str("false") THEN Bool(FALSE)
      ELSE JUndef

\* loadConfig(env) while process.env is penv
loadConfig(env, penv) ==
  LET logLevel        == validateLogLevel(Get(env, "LOG_LEVEL"))
      requestIdHeader == validateHeader(Get(env, "REQUEST_ID_HEADER"),
                                        "requestIdHeader", "x-request-id")
      ctidHeader      == validateHeader(Get(env, "CTID_HEADER"),
                                        "ctidHeader", "x-correlation-id")
      transport       == validateTransport(Get(env, "LOG_TRANSPORT"))
      autoModule      == validateBoolean(autoModuleOf(Get(env, "LOG_AUTO_MODULE")),
                                         "autoModule", FALSE)
      checks          == << logLevel, requestIdHeader, ctidHeader, transport, autoModule >>
  IN  IF FirstThrow(checks).threw THEN FirstThrow(checks)
      ELSE LET cfg == [logLevel |-> logLevel.value,
                       requestIdHeader |-> requestIdHeader.value,
                       ctidHeader |-> ctidHeader.value,
                       transport |-> transport.value,
                       autoModule |-> autoModule.value]
           IN  IF transport.value # Str("loki") THEN Return(Obj(cfg))
               ELSE LET lokiUrl == readEnv(penv, "LOKI_URL")
                        lokiCfg == validateLokiConfig(Obj(
                                     [url |-> lokiUrl,
                                      tenantId |-> readEnv(penv, "LOKI_TENANT_ID"),
                                      basicAuth |-> readEnv(penv, "LOKI_BASIC_AUTH")]))
                    IN  IF Falsy(lokiUrl)
                        THEN Throw(ConfigValidationError(
                               "LOKI_URL is required when transport is \"loki\"",
                               "loki.url", JUndef))
                        ELSE IF lokiCfg.threw THEN lokiCfg
                        ELSE Return(Obj(Spread(cfg, [loki |-> lokiCfg.value])))

\* loadConfigFromObject(input), for a mapping `input`
loadConfigFromObject(input) ==
  LET logLevel        == validateLogLevel(Get(input, "logLevel"))
      requestIdHeader == validateHeader(Get(input, "requestIdHeader"),
                                        "requestIdHeader", "x-request-id")
      ctidHeader      == validateHeader(Get(input, "ctidHeader"),
                                        "ctidHeader", "x-correlation-id")
      transport       == validateTransport(Get(input, "transport"))
      autoModule      == validateBoolean(Get(input, "autoModule"), "autoModule", FALSE)
      checks          == << logLevel, requestIdHeader, ctidHeader, transport, autoModule >>
      lokiIn          == Get(input, "loki")
  IN  IF FirstThrow(checks).threw THEN FirstThrow(checks)
      ELSE LET cfg == [logLevel |-> logLevel.value,
                       requestIdHeader |-> requestIdHeader.value,
                       ctidHeader |-> ctidHeader.value,
                       transport |-> transport.value,
                       autoModule |-> autoModule.value]
           IN  IF transport.value # Str("loki") /\ Falsy(lokiIn) THEN Return(Obj(cfg))
               ELSE IF Falsy(lokiIn)
               THEN Throw(ConfigValidationError(
                      "Loki configuration is required when transport is \"loki\"",
                      "loki", JUndef))
               ELSE IF validateLokiConfig(lokiIn).threw THEN validateLokiConfig(lokiIn)
               ELSE Return(Obj(Spread(cfg, [loki |-> validateLokiConfig(lokiIn).value])))

\* the file system: the regular files, with what JSON.parse makes of their
\* content (a value, or a SyntaxError), and the directories
Files ==
  [p \in { "/etc/logify.json", "/app/logify.json", "/etc/broken.json", "/etc/null.json" } |->
     CASE p = "/etc/logify.json" -> Return(Obj([logLevel |-> Str("debug")]))
       [] p = "/app/logify.json" -> Return(Obj([transport |-> Str("loki")]))
       [] p = "/etc/broken.json" -> Throw(Error("SyntaxError", "Unexpected end of JSON input"))
       [] p = "/etc/null.json"   -> Return([t |-> "null"])]

Directories == { "/etc" }

\* the paths user code passes to loadConfigFromFile
PathInputs ==
  { "/etc/logify.json", "logify.json", "/etc/broken.json", "/etc/null.json", "/etc",
    "/non/existent/file.json", "missing.json" }

\* path.isAbsolute(filePath)
isAbsolute(filePath) == filePath \notin { "logify.json", "missing.json" }

\* path.resolve(process.cwd(), filePath), the process running in /app
resolve(filePath) == "/app/" \o filePath

\* fs.readFileSync(absolutePath, 'utf8'): the content, or the system error
readFileSync(absolutePath) ==
  IF absolutePath \in DOMAIN Files THEN Return(absolutePath)
  ELSE IF absolutePath \in Directories
  THEN Throw([t |-> "error", name |-> "Error", code |-> "EISDIR",
              message |-> "EISDIR: illegal operation on a directory, read"])
  ELSE Throw([t |-> "error", name |-> "Error", code |-> "ENOENT",
              message |-> "ENOENT: no such file or directory, open '" \o absolutePath \o "'"])

\* loadConfigFromFile(filePath)
loadConfigFromFile(filePath) ==
  LET absolutePath == IF isAbsolute(filePath) THEN filePath ELSE resolve(filePath)
      rawContent   == readFileSync(absolutePath)
      tried ==
        IF rawContent.threw THEN rawContent
        ELSE LET parsed == Files[absolutePath]
             IN  IF parsed.threw THEN parsed
                 ELSE IF parsed.value.t # "object"
                 THEN Throw(Error("TypeError", "Cannot read properties of null (reading 'logLevel')"))
                 ELSE loadConfigFromObject(parsed.value.fields)
  IN  IF ~tried.threw THEN tried
      ELSE IF tried.error.name = "SyntaxError"
      THEN Throw(Error("Error", "Invalid JSON in config file " \o filePath \o ": "
                                  \o tried.error.message))
      ELSE IF "code" \in DOMAIN tried.error /\ tried.error.code = "ENOENT"
      THEN Throw(Error("Error", "Config file not found: " \o filePath))
      ELSE tried

\* user code calls loadConfigFromFile(filePath)
LoadConfigFromFile(filePath) ==
  /\ running
  /\ lastOp' = [op |-> "loadConfigFromFile", filePath |-> filePath,
                outcome |-> loadConfigFromFile(filePath)]
  /\ UNCHANGED << processEnv, clock, userBindings, loaded >>
  /\ UNCHANGED << config, loki, loggers, stderr >>
  /\ UNCHANGED netVars
  /\ UNCHANGED logVars
  /\ UNCHANGED ctxVars

\* user code calls loadConfig(env)
LoadConfig(env) ==
  /\ running
  /\ Cardinality(loaded) < MaxLoads
  /\ loaded' = loaded \cup { [env |-> env, outcome |-> loadConfig(env, processEnv)] }
  /\ UNCHANGED << processEnv, clock, userBindings, lastOp >>
  /\ UNCHANGED << config, loki, loggers, stderr >>
  /\ UNCHANGED netVars
  /\ UNCHANGED logVars
  /\ UNCHANGED ctxVars

\* user code (or a test) assigns process.env[name] = value
SetEnv(name, value) ==
  /\ running
  /\ processEnv' = Spread(processEnv, (name :> value))
  /\ processEnv' # processEnv
  /\ UNCHANGED << clock, userBindings, loaded, lastOp >>
  /\ UNCHANGED << config, loki, loggers, stderr >>
  /\ UNCHANGED netVars
  /\ UNCHANGED logVars
  /\ UNCHANGED ctxVars

\* user code (or a test) deletes process.env[name]
DeleteEnv(name) ==
  /\ running
  /\ name \in DOMAIN processEnv
  /\ processEnv' = Rest(processEnv, {name})
  /\ UNCHANGED << clock, userBindings, loaded, lastOp >>
  /\ UNCHANGED << config, loki, loggers, stderr >>
  /\ UNCHANGED netVars
  /\ UNCHANGED logVars
  /\ UNCHANGED ctxVars

(***************************************************************************)
(* Inputs.                                                                 *)
(***************************************************************************)
Config(logLevel, transport, autoModule, lokiUrl) ==
  [logLevel |-> logLevel, transport |-> transport, autoModule |-> autoModule,
   lokiUrl |-> lokiUrl, lokiLabels |-> JUndef]

\* every threshold with every sink; a loki sink with every kind of URL
SinkConfigs ==
  { Config(l, tr, FALSE, JUndef) : l \in Levels, tr \in {"console", "json"} }
  \cup { Config(l, "loki", FALSE, u) : l \in Levels, u \in UrlInputs }

\* a local sink at threshold info, module inference off and on
ModuleConfigs == { Config("info", "console", am, JUndef) : am \in BOOLEAN }

\* the bindings objects given to child()
SinkBindings == { [service |-> Str("auth")] }

ModuleBindings == { [module |-> Str("Auth")], [module |-> Str("Db")], [module |-> Num(7)],
                    [a |-> Str("1")] }

BindingInputs == { [a |-> Str("1"), module |-> Str("Auth")],
                   [a |-> Str("2"), b |-> Str("3")],
                   [module |-> Num(7)],
                   [error |-> Str("bound")] }

\* the options objects given to the level methods
SinkOptions == { EmptyMap, [key |-> Str("value")] }

OptionInputs ==
  { EmptyMap,
    [b |-> Str("4")],
    [a |-> JUndef],
    [module |-> Str("Svc")],
    [error |-> ErrorObject("x", JUndef)],
    [error |-> ErrorObject("y", Str("root"))],
    [error |-> ErrorObject("z", Num(0))],
    [module |-> Str("Svc"), error |-> ErrorObject("x", JUndef), b |-> Str("4")] }

ModuleOptions == { EmptyMap, [module |-> Str("")], [module |-> Str("Svc")] }

SiteInputs == { SiteHandler, SiteNoParse }

FilterSites == { SiteHandler, SiteAnon }

\* a working loki sink with no configured labels, with a label that
\* overrides 'app', and with labels that collide with call-supplied ones
LabelConfigs ==
  { [Config("info", "loki", FALSE, Str("http://loki:3100")) EXCEPT !.lokiLabels = l] :
      l \in { JUndef,
              Obj([app |-> Str("shop")]),
              Obj([env |-> Str("prod"), level |-> Str("cfg")]) } }

\* the lines and labels user code passes to LokiTransport.log; no labels
\* argument spreads as {}
LineInputs == { Str("hello"), Str("bye") }

LabelInputs == { EmptyMap,
                 [level |-> Str("info")],
                 [app |-> Str("call"), env |-> Str("dev")] }

\* threshold warn with module inference on, a local and a working loki sink
FilterConfigs ==
  { Config("warn", "console", TRUE, JUndef),
    Config("warn", "loki", TRUE, Str("http://loki:3100")) }

(***************************************************************************)
(* Initial states: the state after createLogger(config), in the main       *)
(* script, outside every scope.                                            *)
(***************************************************************************)
DateNow == << 1, 7, 6, 7, 2, 2, 5, 6, 0, 0, 0, 0, 0 >>

\* values of Date.now(): the smallest and the largest number of 13 digits
\* (September 2001, November 2286), two present-day values, and the largest
\* number of 12 digits
ClockInputs ==
  { DateNow,
    << 1, 7, 0, 0, 0, 0, 0, 0, 0, 0, 1, 2, 3 >>,
    << 1, 0, 0, 0, 0, 0, 0, 0, 0, 0, 0, 0, 0 >>,
    << 9, 9, 9, 9, 9, 9, 9, 9, 9, 9, 9, 9, 9 >>,
    << 9, 9, 9, 9, 9, 9, 9, 9, 9, 9, 9, 9 >> }

\* the surroundings of the program: no spy on process.stdout, an empty
\* process environment, the clock at DateNow, nothing loaded yet
InitSurroundings ==
  /\ stdout = [spied |-> FALSE, lines |-> << >>]
  /\ processEnv = EmptyMap
  /\ clock = DateNow
  /\ userBindings = EmptyMap
  /\ loaded = {}
  /\ lastOp = [op |-> "none"]

InitLogger(cfg, lgs) ==
  /\ config = cfg
  /\ loki = createLogger(cfg).loki
  /\ stderr = createLogger(cfg).stderr
  /\ loggers = lgs
  /\ written = << >>
  /\ pushed = << >>
  /\ requests = << >>
  /\ stackTraceCache = << >>
  /\ lastCall = [logger |-> 0]
  /\ cur = NoStore
  /\ frames = << >>
  /\ scope = 0
  /\ running = TRUE
  /\ tasks = {}
  /\ nTasks = 0
  /\ scopeCtx = << >>
  /\ nSets = 0
  /\ lastSet = [n |-> 0]

InitWith(cfg, lgs) == InitLogger(cfg, lgs) /\ InitSurroundings

\* Logger Core over every threshold and sink
Init == \E cfg \in SinkConfigs : InitWith(cfg, << RootLogger >>)

Next ==
  \/ \E i \in 1..MaxLoggers, level \in Levels, options \in SinkOptions :
       Log(i, level, options, StackOf(SiteHandler))
  \/ \E i \in 1..MaxLoggers, bindings \in SinkBindings : Child(i, bindings)

Spec == Init /\ [][Next]_vars

\* Logger Core over bindings and options: the details of the record
InitDetails == InitWith(Config("info", "console", FALSE, JUndef), << RootLogger >>)

NextDetails ==
  \/ \E i \in 1..MaxLoggers, options \in OptionInputs :
       Log(i, "info", options, StackOf(SiteHandler))
  \/ \E i \in 1..MaxLoggers, bindings \in BindingInputs : Child(i, bindings)

SpecDetails == InitDetails /\ [][NextDetails]_vars

\* Logger Core over module bindings, module options and call sites: the
\* module of the record
InitModule == \E cfg \in ModuleConfigs : InitWith(cfg, << RootLogger >>)

NextModule ==
  \/ \E i \in 1..MaxLoggers, options \in ModuleOptions, site \in SiteInputs :
       Log(i, "info", options, StackOf(site))
  \/ \E i \in 1..MaxLoggers, bindings \in ModuleBindings : Child(i, bindings)

SpecModule == InitModule /\ [][NextModule]_vars

\* Context Store: scopes, continuations and setContext
InitCtx ==
  InitWith(Config("info", "console", FALSE, JUndef),
           << RootLogger, childLogger(RootLogger, [service |-> Str("auth")]) >>)

NextCtx ==
  \/ \E ctx \in CtxInputs : RunWithContext(ctx)
  \/ ReturnFromRun
  \/ Schedule
  \/ Finish
  \/ \E task \in tasks : Dispatch(task)
  \/ \E next \in PartialInputs : SetContext(next)

SpecCtx == InitCtx /\ [][NextCtx]_vars

\* a root and a child logger that log inside interleaved scopes
NextIso ==
  \/ \E ctx \in CtxInputs : RunWithContext(ctx)
  \/ ReturnFromRun
  \/ Schedule
  \/ Finish
  \/ \E task \in tasks : Dispatch(task)
  \/ \E i \in 1..2 : Log(i, "info", EmptyMap, StackOf(SiteHandler))

SpecIso == InitCtx /\ [][NextIso]_vars

\* Logger Core with module inference on: calls below and above the threshold
InitFilter == \E cfg \in FilterConfigs : InitWith(cfg, << RootLogger >>)

NextFilter ==
  \/ \E i \in 1..MaxLoggers, level \in Levels, site \in FilterSites :
       Log(i, level, EmptyMap, StackOf(site))
  \/ \E i \in 1..MaxLoggers, bindings \in SinkBindings : Child(i, bindings)

SpecFilter == InitFilter /\ [][NextFilter]_vars

\* Module Inferencer: a root logger with inference on is called from many
\* call sites.  The sites are numbered in the order of their first use:
\* a call comes from the first site, from the newest site used so far, from
\* the next unused site, or from a site whose frame does not parse.
InitCache == InitWith(Config("info", "console", TRUE, JUndef), << RootLogger >>)

\* the number of the newest numbered site whose key is in the cache
NewestSite ==
  LET cached == { n \in 1..MaxSites :
                    \E i \in 1..Len(stackTraceCache) :
                      stackTraceCache[i].key = CacheKey(StackOf(SiteNo(n))) }
  IN  IF cached = {} THEN 0 ELSE CHOOSE n \in cached : \A m \in cached : m <= n

NextCache ==
  \/ \E n \in {1, NewestSite, NewestSite + 1} \cap (1..MaxSites) :
       Log(1, "info", EmptyMap, StackOf(SiteNo(n)))
  \/ Log(1, "info", EmptyMap, StackOf(SiteNoParse))

SpecCache == InitCache /\ [][NextCache]_vars

\* Remote Transport: log(line, labels), called by user code and by emit
InitLoki == \E cfg \in LabelConfigs : InitWith(cfg, << RootLogger >>)

NextLoki ==
  \/ \E line \in LineInputs, labels \in LabelInputs : LokiLog(line, labels)
  \/ \E level \in {"info", "error"} : Log(1, level, EmptyMap, StackOf(SiteHandler))

SpecLoki == InitLoki /\ [][NextLoki]_vars

\* Remote Transport: pushes of a logger with a working loki sink, and the
\* responses, connection failures and timeouts the event loop delivers
InitPush ==
  InitWith(Config("info", "loki", FALSE, Str("http://loki:3100")), << RootLogger >>)

NextPush ==
  \/ \E level \in {"debug", "info", "error"} : Log(1, level, EmptyMap, StackOf(SiteHandler))
  \/ Schedule
  \/ Finish
  \/ \E task \in tasks : Dispatch(task)
  \/ \E r \in 1..MaxPushes, statusCode \in StatusInputs : ResponseEnd(r, statusCode)
  \/ \E r \in 1..MaxPushes, message \in ErrorMessages : RequestError(r, message)
  \/ \E r \in 1..MaxPushes : RequestTimeout(r)

SpecPush == InitPush /\ [][NextPush]_vars

\* header propagation from inside and outside scopes, with setContext
NextHeaders ==
  \/ \E ctx \in CtxInputs : RunWithContext(ctx)
  \/ ReturnFromRun
  \/ Schedule
  \/ Finish
  \/ \E task \in tasks : Dispatch(task)
  \/ \E next \in PartialInputs : SetContext(next)
  \/ \E opts \in HeaderOptions : BuildPropagationHeaders(opts)

SpecHeaders == InitCtx /\ [][NextHeaders]_vars

\* inbound requests pass the middleware; the downstream handlers log,
\* return and hand control back to the event loop
NextMiddleware ==
  \/ \E opts \in MiddlewareOptions, headers \in RequestInputs,
        uuid \in UuidInputs, bytes \in ByteInputs :
       Middleware(opts, headers, uuid, bytes)
  \/ ReturnFromRun
  \/ Finish
  \/ Log(1, "info", EmptyMap, StackOf(SiteHandler))

SpecMiddleware == InitCtx /\ [][NextMiddleware]_vars

\* user code keeps one bindings object, hands it to child() of any logger,
\* changes its top-level keys between the calls, and logs through every logger
NextChild ==
  \/ \E i \in 1..MaxLoggers : Child(i, userBindings)
  \/ \E key \in { "a", "module" }, value \in { Str("1"), Str("2") } :
       SetBinding(key, value)
  \/ \E key \in { "a", "module" } : DeleteBinding(key)
  \/ \E i \in 1..MaxLoggers, options \in { EmptyMap, [b |-> Str("4")] } :
       Log(i, "info", options, StackOf(SiteHandler))

SpecChild == InitDetails /\ [][NextChild]_vars

\* Remote Transport under a moving clock: pushes made at different times
InitClock ==
  /\ InitLogger(Config("info", "loki", FALSE, Str("http://loki:3100")), << RootLogger >>)
  /\ clock \in ClockInputs
  /\ stdout = [spied |-> FALSE, lines |-> << >>]
  /\ processEnv = EmptyMap
  /\ userBindings = EmptyMap
  /\ loaded = {}
  /\ lastOp = [op |-> "none"]

NextClock ==
  \/ \E now \in ClockInputs : Tick(now)
  \/ \E line \in LineInputs, labels \in LabelInputs : LokiLog(line, labels)
  \/ Log(1, "info", EmptyMap, StackOf(SiteHandler))

SpecClock == InitClock /\ [][NextClock]_vars

\* the env arguments of loadConfig
EnvInputs ==
  { EmptyMap,
    [LOG_TRANSPORT |-> Str("loki")],
    [LOG_TRANSPORT |-> Str("loki"), LOKI_URL |-> Str("https://loki.example"),
     LOKI_TENANT_ID |-> Str("tenant-env")],
    [LOG_LEVEL |-> Str("verbose"), LOG_TRANSPORT |-> Str("loki")],
    [LOG_LEVEL |-> Str("debug"), LOG_AUTO_MODULE |-> Str("TRUE"),
     LOG_TRANSPORT |-> Str("json"), CTID_HEADER |-> Str("")] }

\* the assignments to process.env
EnvAssignments ==
  { << "LOKI_URL", Str("http://loki:3100") >>,
    << "LOKI_URL", Str("not a url") >>,
    << "LOKI_URL", Str("") >>,
    << "LOKI_TENANT_ID", Str("tenant123") >>,
    << "LOKI_BASIC_AUTH", Str("dXNlcjpwYXNz") >>,
    << "LOG_TRANSPORT", Str("loki") >> }

\* configuration loading from files, from env arguments and from
\* process.env itself, while the process environment changes
NextConfig ==
  \/ \E filePath \in PathInputs : LoadConfigFromFile(filePath)
  \/ \E env \in EnvInputs : LoadConfig(env)
  \/ LoadConfig(processEnv)
  \/ \E a \in EnvAssignments : SetEnv(a[1], a[2])
  \/ \E name \in { "LOKI_URL", "LOG_TRANSPORT" } : DeleteEnv(name)

SpecConfig == InitDetails /\ [][NextConfig]_vars

\* a root and a child logger log inside interleaved scopes while a spy
\* collects process.stdout; the k-th call that passes the filter is tagged
\* seq: k by its caller, calls below the threshold are tagged seq: 0
InitOrder ==
  /\ InitLogger(Config("info", "console", FALSE, JUndef),
                << RootLogger, childLogger(RootLogger, [service |-> Str("auth")]) >>)
  /\ stdout = [spied |-> TRUE, lines |-> << >>]
  /\ processEnv = EmptyMap
  /\ clock = DateNow
  /\ userBindings = EmptyMap
  /\ loaded = {}
  /\ lastOp = [op |-> "none"]

NextOrder ==
  \/ \E ctx \in CtxInputs : RunWithContext(ctx)
  \/ ReturnFromRun
  \/ Schedule
  \/ Finish
  \/ \E task \in tasks : Dispatch(task)
  \/ \E i \in 1..2 :
       Log(i, "info", [seq |-> Num(Len(stdout.lines) + 1)], StackOf(SiteHandler))
  \/ \E i \in 1..2 : Log(i, "debug", [seq |-> Num(0)], StackOf(SiteHandler))

SpecOrder == InitOrder /\ [][NextOrder]_vars

\* Remote Transport: pushes and every event the connection can deliver,
\* the loss of the connection in the middle of a response included
NextSettle ==
  \/ \E level \in {"info", "error"} : Log(1, level, EmptyMap, StackOf(SiteHandler))
  \/ Finish
  \/ \E r \in 1..MaxPushes, statusCode \in StatusInputs : ResponseEnd(r, statusCode)
  \/ \E r \in 1..MaxPushes, message \in ErrorMessages : RequestError(r, message)
  \/ \E r \in 1..MaxPushes : RequestTimeout(r)
  \/ \E r \in 1..MaxPushes : ResponseClosed(r)

SpecSettle == InitPush /\ [][NextSettle]_vars

(***************************************************************************)
(* Properties.                                                             *)
(***************************************************************************)
\* the severity order debug < info < warn < error
LevelRank == [debug |-> 0, info |-> 1, warn |-> 2, error |-> 3]

\* a log call has been made
Called == lastCall.logger # 0

\* the most recent log call passed the level filter
Passed == LevelRank[lastCall.level] >= LevelRank[config.logLevel]

\* C1: with a local-stream sink (transport console or json), a call of level
\* L on the root or on a child logger under threshold T writes one record,
\* of that level, if and only if order(L) >= order(T), and nothing otherwise.
C1_LevelFilter ==
  (Called /\ config.transport \in {"console", "json"}) =>
     /\ Len(written) = (IF Passed THEN 1 ELSE 0)
     /\ Passed => written[1].level = Str(lastCall.level)

\* a child logger was called at exactly the threshold and wrote its record
C1_Witness ==
  /\ Called
  /\ lastCall.logger > 1
  /\ config.transport = "json"
  /\ config.logLevel = "warn"
  /\ lastCall.level = "warn"
  /\ Len(written) = 1

\* C3: when transport is 'loki' and the construction of the LokiTransport
\* fails, createLogger still returns a logger and every later log call that
\* passes the level filter is written to the local output stream.
C3_LocalLoggingSurvives ==
  (Called /\ config.transport = "loki" /\ LokiTransport(config) # "ok" /\ Passed) =>
     Len(written) = 1

\* the bindings objects given to child() on the path from the root to the
\* logger of the most recent call, each without its 'module' key, followed
\* by the call-site options without 'module' and 'error'
CallSources ==
  LET chain == loggers[lastCall.logger].chain
  IN  [k \in 1..Len(chain) |-> Rest(chain[k], {"module"})]
        \o << Rest(lastCall.options, {"module", "error"}) >>

\* an error was supplied to the most recent call
ErrorSupplied == Get(lastCall.options, "error") # JUndef

\* the shallow union of a sequence of mappings, the rightmost source that
\* has a key giving its value
RightmostUnion(srcs) ==
  [k \in UNION { DOMAIN srcs[n] : n \in 1..Len(srcs) } |->
     LET last == CHOOSE n \in 1..Len(srcs) :
                   k \in DOMAIN srcs[n] /\ \A m \in (n + 1)..Len(srcs) : k \notin DOMAIN srcs[m]
     IN  srcs[last][k]]

\* C8: the record of a root or child logger has a details field if and only
\* if the inherited bindings and the call-site option keys other than
\* 'module' and 'error' are not all empty, or an error was supplied;
\* otherwise details is absent, and it is never an empty mapping then.
C8_DetailsPresence ==
  Called =>
    /\ Len(written) = 1
    /\ ("details" \in DOMAIN written[1])
         <=> (DOMAIN RightmostUnion(CallSources) # {} \/ ErrorSupplied)
    /\ ("details" \in DOMAIN written[1]) => written[1].details.t = "object"

\* a child logger without bindings was called with only a module option:
\* the record has no details field
C8_Witness ==
  /\ Called
  /\ lastCall.logger > 1
  /\ DOMAIN loggers[lastCall.logger].bindings = {}
  /\ lastCall.options = [module |-> Str("Svc")]
  /\ Len(written) = 1
  /\ "details" \notin DOMAIN written[1]

\* C9: for a chain root.child(b1)...child(bn) and call-site options o, the
\* details of the record are the shallow union of b1, ..., bn, o (each b
\* without 'module', o without 'module' and 'error') in which the rightmost
\* source wins a key collision; a supplied error is added under 'error'.
C9_BindingPrecedence ==
  Called =>
    /\ Len(written) = 1
    /\ LET expected == JsonMap(RightmostUnion(CallSources))
           details  == IF "details" \in DOMAIN written[1]
                       THEN written[1].details.fields ELSE EmptyMap
       IN  IF ErrorSupplied
           THEN Rest(details, {"error"}) = Rest(expected, {"error"})
           ELSE details = expected

\* child({a:1}).child({a:2,b:3}) logged with {b:4} gave details {a:2, b:4}
C9_Witness ==
  /\ Called
  /\ lastCall.logger > 1
  /\ loggers[lastCall.logger].chain
       = << [a |-> Str("1"), module |-> Str("Auth")], [a |-> Str("2"), b |-> Str("3")] >>
  /\ lastCall.options = [b |-> Str("4")]
  /\ Len(written) = 1
  /\ written[1].details = Obj([a |-> Str("2"), b |-> Str("4")])

\* C10: whenever a log call supplies options.module, whatever string it is,
\* the module of the record is that value: it wins over an inferred module
\* and over the module inherited from the logger.
C10_ExplicitModuleWins ==
  (Called /\ Get(lastCall.options, "module").t = "string") =>
    /\ Len(written) = 1
    /\ Get(written[1], "module") = lastCall.options.module

\* a context with both identifiers unset
UnsetFields == [requestId |-> JUndef, ctid |-> JUndef]

\* the context given to runWithContext for scope s; no context outside every scope
ScopeFields(s) == IF s = 0 THEN UnsetFields ELSE scopeCtx[s]

\* C2: every record emitted by a log call made inside a scope, in its
\* synchronous code or in a continuation scheduled from it, carries that
\* scope's requestId and ctid, and never the ctid of another scope started
\* with a different ctid, however the continuations are interleaved.
C2_Isolation ==
  (Called /\ lastCall.scope # 0) =>
    /\ Len(written) = 1
    /\ LET own == scopeCtx[lastCall.scope]
       IN  /\ Get(written[1], "requestId") = own.requestId
           /\ Get(written[1], "ctid") = own.ctid
           /\ \A s \in 1..Len(scopeCtx) :
                (s # lastCall.scope /\ scopeCtx[s].ctid # own.ctid)
                  => Get(written[1], "ctid") # scopeCtx[s].ctid

\* a continuation of the first scope logged while a continuation of a
\* second scope with another ctid was still pending
C2_Witness ==
  /\ Called
  /\ lastCall.scope = 1
  /\ lastCall.depth = 0
  /\ Len(scopeCtx) = 2
  /\ scopeCtx[1].ctid # scopeCtx[2].ctid
  /\ \E t \in tasks : t.scope = 2
  /\ Len(written) = 1
  /\ written[1].ctid = scopeCtx[1].ctid

\* the store belongs to scope s: the code of s installed it, and unless
\* setContext built it, it holds the context given to runWithContext for s
BelongsTo(store, s) ==
  LET c == getContext(store)
  IN  /\ c.owner = s
      /\ ~c.merged => c.fields = ScopeFields(s)

\* C4: with runWithContext(inner, g) called inside runWithContext(outer, f),
\* getContext() returns inner only during g and in the continuations
\* scheduled from g; once g has returned, the rest of f and the continuations
\* scheduled from f outside g observe outer again, at every nesting depth.
C4_NestedScopes ==
  /\ (running /\ scope # 0) => BelongsTo(cur, scope)
  /\ \A t \in tasks : t.scope # 0 => BelongsTo(t.store, t.scope)
  /\ \A n \in 1..Len(frames) : frames[n].scope # 0 => BelongsTo(frames[n].saved, frames[n].scope)

\* the nested scope has returned into the outer one, which observes its own
\* context again, and a continuation scheduled from the nested scope is pending
C4_Witness ==
  /\ running
  /\ scope = 1
  /\ Len(frames) = 1
  /\ Len(scopeCtx) = 2
  /\ scopeCtx[1] # scopeCtx[2]
  /\ getContext(cur).fields = scopeCtx[1]
  /\ \E t \in tasks : t.scope = 2 /\ getContext(t.store).fields = scopeCtx[2]

\* C5: while no runWithContext scope is active, getContext() returns a
\* context with both fields unset, after any earlier sequence of
\* runWithContext, setContext and getContext calls.
C5_UnsetOutsideScopes ==
  (running /\ scope = 0) => getContext(cur).fields = UnsetFields

\* C6: once setContext has been called in a scope, every continuation of
\* that scope, also one scheduled before the call, observes the merged
\* context that the calling code observes.
C6_AllContinuationsSeeMerge ==
  (running /\ scope # 0 /\ getContext(cur).merged) =>
    \A t \in tasks : t.scope = scope => getContext(t.store).fields = getContext(cur).fields

\* C7: every emitted record carries exactly the requestId and ctid that
\* getContext() returns at the log call; an identifier that is absent from
\* the context is left out of the serialized record, which is still emitted.
C7_ContextOnRecord ==
  Called =>
    /\ Len(written) = 1
    /\ \A k \in {"requestId", "ctid"} :
         IF lastCall.context.fields[k] = JUndef
         THEN k \notin DOMAIN written[1]
         ELSE k \in DOMAIN written[1] /\ written[1][k] = lastCall.context.fields[k]

\* a record was emitted inside a scope whose context has a ctid and no requestId
C7_Witness ==
  /\ Called
  /\ lastCall.scope # 0
  /\ lastCall.context.fields.requestId = JUndef
  /\ lastCall.context.fields.ctid = Str("c2")
  /\ Len(written) = 1
  /\ "requestId" \notin DOMAIN written[1]
  /\ written[1].ctid = Str("c2")

\* the module string given to the nearest child() call of a chain that
\* supplied a string 'module' binding, undefined when none did
NearestModule(chain) ==
  LET given == { n \in 1..Len(chain) : Get(chain[n], "module").t = "string" }
  IN  IF given = {} THEN JUndef
      ELSE chain[CHOOSE n \in given : \A m \in given : m <= n].module

C12_ErrorDetails ==
  Called =>
    /\ Len(written) = 1
    /\ LET err       == Get(lastCall.options, "error")
           inherited == Get(RightmostUnion(CallSources), "error")
       IN  IF ErrorSupplied
           THEN /\ "details" \in DOMAIN written[1]
                /\ "error" \in DOMAIN written[1].details.fields
                /\ LET e == written[1].details.fields.error
                   IN  /\ e.t = "object"
                       /\ DOMAIN e.fields \subseteq {"name", "message", "stack", "cause"}
                       /\ Get(e.fields, "name") = err.name
                       /\ Get(e.fields, "message") = err.message
                       /\ Get(e.fields, "stack") = err.stack
                       /\ "cause" \in DOMAIN e.fields =>
                            (err.cause # JUndef /\ e.fields.cause = err.cause)
                       /\ err.cause = Str("root") => "cause" \in DOMAIN e.fields
           ELSE IF inherited # JUndef
                THEN /\ "details" \in DOMAIN written[1]
                     /\ Get(written[1].details.fields, "error") = inherited
                ELSE "details" \in DOMAIN written[1] =>
                       "error" \notin DOMAIN written[1].details.fields

\* a child bound to error 'bound' logged an error that has a cause: the
\* extracted mapping, cause included, replaced the binding
C12_Witness ==
  /\ Called
  /\ Get(loggers[lastCall.logger].bindings, "error") = Str("bound")
  /\ lastCall.options = [error |-> ErrorObject("y", Str("root"))]
  /\ Len(written) = 1
  /\ written[1].details.fields.error
       = Obj([name |-> Str("Error"), message |-> Str("y"), stack |-> Str("Error: y"),
              cause |-> Str("root")])

\* the push of request r failed: the first event delivered to it is a
\* response with a non-2xx status, a connection failure or a timeout
Failed(r) ==
  /\ requests[r].events # << >>
  /\ LET e == requests[r].events[1]
     IN  \/ e.kind \in {"error", "timeout"}
         \/ e.kind = "end" /\ ~(e.status >= 200 /\ e.status <= 299)

\* the number of console.error reports about request r
Reports(r) == Cardinality({ n \in 1..Len(stderr) : stderr[n].request = r })

KindOf(error) ==
  IF error.statusCode # JUndef THEN "status"
  ELSE IF error.message = Str("Loki request timeout") THEN "timeout"
  ELSE "connection"

C14_SideEffects ==
  Called =>
    /\ Len(written) = (IF Passed /\ config.transport # "loki" THEN 1 ELSE 0)
    /\ Len(pushed) = (IF Passed /\ loki THEN 1 ELSE 0)
    /\ Len(requests) = lastCall.requestsBefore + Len(pushed)
    /\ Len(pushed) = 1 =>
         /\ pushed[1].line.level = Str(lastCall.level)
         /\ requests[Len(requests)].body.streams[1].values[1][2] = pushed[1].line
    /\ Len(written) = 1 => written[1].level = Str(lastCall.level)

\* with a working loki sink, a second call that passed the filter issued
\* one more push and wrote nothing to the local stream
C14_Witness ==
  /\ Called
  /\ Passed
  /\ loki
  /\ lastCall.requestsBefore = 1
  /\ Len(requests) = 2
  /\ Len(pushed) = 1
  /\ written = << >>

\* C15: a log call whose level is below the threshold returns before any
\* other work: it does not read the Context Store, does not run module
\* inference, and leaves the inference cache, the local stream and the
\* remote transport as they were.
C15_FilteredCallDoesNothing ==
  (Called /\ ~Passed) =>
    /\ ~lastCall.contextRead
    /\ ~lastCall.inferenceRun
    /\ stackTraceCache = lastCall.cacheBefore
    /\ written = << >>
    /\ pushed = << >>
    /\ Len(requests) = lastCall.requestsBefore

\* with inference on and a working loki sink, a call below the threshold
\* was made from a call site that is not in the cache, after an earlier call
\* had filled the cache and issued a push
C15_Witness ==
  /\ Called
  /\ ~Passed
  /\ config.autoModule
  /\ loki
  /\ lastCall.stack = StackOf(SiteAnon)
  /\ Len(stackTraceCache) = 1
  /\ stackTraceCache[1].key = CacheKey(StackOf(SiteHandler))
  /\ Len(requests) = 1

\* C16: in every reachable state the module inference cache holds at most
\* 100 entries, after any number of inference calls from any number of
\* distinct call-site fingerprints.
C16_CacheBound == Len(stackTraceCache) <= 100

\* inference ran for the 102nd distinct call site: the cache holds 100
\* entries and the entry of the first site is gone
C16_Witness ==
  /\ Called
  /\ lastCall.inferenceRun
  /\ lastCall.stack = StackOf(SiteNo(102))
  /\ Len(stackTraceCache) = 100
  /\ \A i \in 1..Len(stackTraceCache) :
       stackTraceCache[i].key # CacheKey(StackOf(SiteNo(1)))
  /\ stackTraceCache[100].key = CacheKey(StackOf(SiteNo(102)))

ConfiguredLabels == IF config.lokiLabels = JUndef THEN EmptyMap ELSE config.lokiLabels.fields

\* C18: each call of LokiTransport.log(line, labels) issues exactly one POST
\* whose body has one stream with one [timestamp, line] pair, the line of
\* that call (no batching across calls), and whose stream labels are the
\* union of {app:'logify'}, the configured labels over it, and the
\* call-supplied labels over both.
C18_OnePostPerCall ==
  /\ [](\A r \in 1..Len(requests) :
          LET q == requests[r]
          IN  /\ q.method = "POST"
              /\ Len(q.body.streams) = 1
              /\ Len(q.body.streams[1].values) = 1
              /\ Len(q.body.streams[1].values[1]) = 2
              /\ q.body.streams[1].values[1][2] = q.call.line
              /\ q.body.streams[1].stream
                   = RightmostUnion(<< [app |-> Str("logify")], ConfiguredLabels,
                                       q.call.labels >>))
  /\ [][/\ Len(requests') = Len(requests) + 1
        /\ SubSeq(requests', 1, Len(requests)) = requests]_vars

\* two calls issued two requests; the second, with label level 'info' over
\* the configured level 'cfg', has the stream {app, env, level:'info'}
C18_Witness ==
  /\ Len(requests) = 2
  /\ requests[2].call = [line |-> Str("hello"), labels |-> [level |-> Str("info")]]
  /\ requests[2].body.streams[1].stream
       = [app |-> Str("logify"), env |-> Str("prod"), level |-> Str("info")]
  /\ requests[1].body.streams[1].stream
       = [app |-> Str("call"), env |-> Str("dev"), level |-> Str("cfg")]

\* C20: constructing a LokiTransport throws, before any push can happen, if
\* no endpoint URL is configured or the URL cannot be parsed, and the error
\* thrown is not a LokiTransportError; with a parsable URL it succeeds.
C20_ConstructionFailsFast ==
  config.transport = "loki" =>
    IF config.lokiUrl = Str("http://loki:3100")
    THEN loki /\ stderr = << >>
    ELSE /\ ~loki
         /\ requests = << >>
         /\ pushed = << >>
         /\ Len(stderr) = 1
         /\ stderr[1].error.t = "error"
         /\ stderr[1].error.name # Str("LokiTransportError")
         /\ stderr[1].error.message
              = (IF config.lokiUrl \in {JUndef, Str("")}
                 THEN Str("LOKI_URL is required for loki transport")
                 ELSE Str("Invalid Loki URL: " \o config.lokiUrl.v))

\* the construction with a URL that does not parse threw an Error; a log
\* call that passed the filter afterwards pushed nothing
C20_Witness ==
  /\ config.transport = "loki"
  /\ config.lokiUrl = Str("not a url")
  /\ ~loki
  /\ stderr[1].error = [t |-> "error", name |-> Str("Error"),
                        message |-> Str("Invalid Loki URL: not a url")]
  /\ Called
  /\ Passed
  /\ requests = << >>

\* an identifier is present when it is set to a non-empty string
Present(id) == id # JUndef /\ id # Str("")

\* C21: buildPropagationHeaders(opts) returns a mapping that has the
\* requestId header name, mapped to the active requestId, iff a requestId is
\* present, the ctid header name, mapped to the active ctid, iff a ctid is
\* present, and no other key; outside every scope the mapping is empty.
C21_PropagationHeaders ==
  lastOp.op = "buildPropagationHeaders" =>
    LET result == lastOp.result
        opts   == lastOp.opts
        ctx    == lastOp.context
    IN  /\ opts.requestIdHeader \in DOMAIN result <=> Present(ctx.requestId)
        /\ Present(ctx.requestId) => result[opts.requestIdHeader] = ctx.requestId
        /\ opts.ctidHeader \in DOMAIN result <=> Present(ctx.ctid)
        /\ Present(ctx.ctid) => result[opts.ctidHeader] = ctx.ctid
        /\ DOMAIN result \subseteq { opts.requestIdHeader, opts.ctidHeader }
        /\ (lastOp.scope = 0 /\ lastOp.depth = 0) => result = EmptyMap

\* C22: for every inbound request the middleware runs the downstream handler
\* inside a new context whose requestId is the freshly generated one, never
\* a value of the inbound request, and whose ctid is the inbound ctid header
\* value when that is 32 lower-case alphanumeric characters and otherwise a
\* newly generated string of exactly 32 lower-case alphanumeric characters.
C22_MiddlewareContext ==
  lastOp.op = "middleware" =>
    LET ctx     == lastOp.context
        inbound == Get(lastOp.headers, toLowerCase(lastOp.opts.ctidHeader))
    IN  /\ scopeCtx[lastOp.scope] = ctx
        /\ ctx.requestId = lastOp.uuid
        /\ \A s \in 1..Len(scopeCtx) : s # lastOp.scope => scopeCtx[s].requestId # ctx.requestId
        /\ Len(ctx.ctid.chars) = 32
        /\ \A k \in 1..32 : \E n \in 1..36 : ctx.ctid.chars[k] = Base36[n]
        /\ IF inbound # JUndef /\ inbound.t = "string" /\ "chars" \in DOMAIN inbound
              /\ Len(inbound.chars) = 32
              /\ \A k \in 1..32 : \E n \in 1..36 : inbound.chars[k] = Base36[n]
           THEN ctx.ctid = inbound
           ELSE ctx.ctid = Text(generateCtid(lastOp.bytes))
        /\ (scope = lastOp.scope /\ running) => getContext(cur).fields = ctx

\* a request with a malformed ctid header and a client-chosen request id
\* has passed the middleware, and the downstream handler has logged
C22_Witness ==
  /\ lastOp.op = "middleware"
  /\ "x-rid" \in DOMAIN lastOp.headers
  /\ lastOp.headers["x-ctid"] = Text(Repeat("a", 31))
  /\ lastOp.opts.ctidHeader = "x-ctid"
  /\ lastCall.logger = 1
  /\ lastCall.scope = lastOp.scope
  /\ Len(scopeCtx) = 2

\* C23: child(bindings) leaves its parent unchanged and shares no mutable
\* state with it: no child() call, log call or later change of the top-level
\* keys of the object passed to child() changes an existing logger, so a
\* record logged through any logger has the details and module given by the
\* bindings as they were at the child() calls on its own path from the root.
C23_ChildFrame ==
  /\ [](Called =>
          /\ Len(written) = 1
          /\ (IF "details" \in DOMAIN written[1]
              THEN written[1].details.fields ELSE EmptyMap)
               = JsonMap(RightmostUnion(CallSources))
          /\ Get(written[1], "module") = NearestModule(loggers[lastCall.logger].chain))
  /\ [][\A j \in 1..Len(loggers) : loggers'[j] = loggers[j]]_vars

\* a child was made from { a: '1' }, the object then became { a: '2',
\* module: ... }, a sibling was made from it, and the first child logged
\* details { a: '1' } without a module
C23_Witness ==
  /\ Called
  /\ Len(loggers) = 3
  /\ lastCall.logger = 2
  /\ loggers[2].chain = << [a |-> Str("1")] >>
  /\ loggers[3].chain = << [a |-> Str("2"), module |-> Str("1")] >>
  /\ userBindings = [module |-> Str("2")]
  /\ written[1].details = Obj([a |-> Str("1")])
  /\ "module" \notin DOMAIN written[1]

\* the timestamps of the pushes that a step starts
NewTimestamps ==
  { requests'[r].body.streams[1].values[1][1] : r \in (Len(requests) + 1)..Len(requests') }

\* the decimal string of the clock value times 1,000,000
ClockTimesMillion == Str(DecimalString(clock \o << 0, 0, 0, 0, 0, 0 >>))

\* C24 as stated: the first element of the value pair of a push is the
\* decimal string of the millisecond clock value multiplied by 1,000,000,
\* and it is an 18-digit string.
C24_EighteenDigits ==
  [][\A ts \in NewTimestamps : ts = ClockTimesMillion /\ Len(ts.v) = 18]_vars

\* C24, amended: the first element of the value pair of a push is the
\* decimal string of the millisecond clock value multiplied by 1,000,000,
\* and it is a 19-digit string for every clock value of 13 digits.
C24_NanosecondTimestamp ==
  [][\A ts \in NewTimestamps :
       /\ ts = ClockTimesMillion
       /\ Len(clock) = 13 => Len(ts.v) = 19]_vars

\* a push made at 1767225600000 ms carries "1767225600000000000", and a
\* later one made at 9999999999999 ms carries "9999999999999000000"
C24_Witness ==
  /\ Len(requests) = 2
  /\ requests[1].body.streams[1].values[1][1] = Str("1767225600000000000")
  /\ requests[2].body.streams[1].values[1][1] = Str("9999999999999000000")
  /\ clock = << 9, 9, 9, 9, 9, 9, 9, 9, 9, 9, 9, 9, 9 >>

\* the strings that stand before and after a part of a message of the model
Affixes ==
  { "", "ENOENT: ", "Config file not found: " }
  \cup { ", open '" \o p \o "'" : p \in PathInputs \cup { resolve(q) : q \in PathInputs } }
  \cup PathInputs

\* String.prototype.includes
Contains(text, part) == \E a, b \in Affixes : a \o part \o b = text

\* the absolute path that loadConfigFromFile reads for filePath
AbsolutePath(filePath) == IF isAbsolute(filePath) THEN filePath ELSE resolve(filePath)

\* C25: loadConfigFromFile called with the path of a file that does not
\* exist throws an error whose message contains 'no such file or directory'.
C25_MissingFileMessage ==
  (/\ lastOp.op = "loadConfigFromFile"
   /\ AbsolutePath(lastOp.filePath) \notin DOMAIN Files \cup Directories) =>
     /\ lastOp.outcome.threw
     /\ Contains(lastOp.outcome.error.message, "no such file or directory")

\* C30: two loadConfig calls with the same env argument have the same
\* outcome, the same configuration or the same error, whatever process.env
\* holds at either call.
C30_EnvAloneDecides ==
  \A a, b \in loaded : a.env = b.env => a.outcome = b.outcome

\* C26: module inference runs for a log call iff autoModule is enabled and
\* the call has neither an explicit options.module nor a module inherited
\* from the logger; the module of the record is then the inferred value, or
\* absent when inference fails; in every other case the call leaves the
\* inference cache as it was and the module is the explicit one, else the
\* inherited one, else absent.
C26_InferenceOnlyWhenNeeded ==
  Called =>
    LET explicit  == Get(lastCall.options, "module")
        inherited == NearestModule(loggers[lastCall.logger].chain)
        needed    == config.autoModule /\ explicit = JUndef /\ inherited = JUndef
    IN  /\ lastCall.inferenceRun <=> needed
        /\ Len(written) = 1
        /\ needed =>
             Get(written[1], "module")
               = inferModuleFromStack(lastCall.stack, lastCall.cacheBefore).result
        /\ ~needed =>
             /\ stackTraceCache = lastCall.cacheBefore
             /\ Get(written[1], "module")
                  = (IF explicit # JUndef THEN explicit ELSE inherited)

\* C27: an entry leaves the module inference cache only in an inference
\* call that inserts a new entry: a call that inserts nothing (a cache hit,
\* or a stack from which no module is parsed) leaves the cache as it was,
\* also when the cache already holds 100 entries.
C27_EvictionOnlyOnInsert ==
  (Called /\ lastCall.inferenceRun) =>
    LET before   == lastCall.cacheBefore
        after    == stackTraceCache
        inserted == \E i \in 1..Len(after) :
                      \A j \in 1..Len(before) : before[j].key # after[i].key
    IN  ~inserted => after = before

\* C28: with a local-stream sink, the lines on standard output appear in the
\* order of the log calls that produced them, one line per emitted call:
\* the k-th line is the record of the k-th emitted call, and the last line
\* is the record of the most recent emitted call, with the context of that
\* call, whichever logger and scope the calls came from.
C28_StdoutOrder ==
  stdout.spied =>
    /\ \A k \in 1..Len(stdout.lines) : stdout.lines[k].details = Obj([seq |-> Num(k)]
                                         @@ loggers[IF "service" \in DOMAIN stdout.lines[k].details.fields
                                                    THEN 2 ELSE 1].bindings)
    /\ \A k \in 1..Len(stdout.lines) : stdout.lines[k].level = Str("info")
    /\ (Called /\ Passed) =>
         /\ stdout.lines # << >>
         /\ written = << stdout.lines[Len(stdout.lines)] >>
         /\ stdout.lines[Len(stdout.lines)].details.fields.seq = lastCall.options.seq
         /\ Get(stdout.lines[Len(stdout.lines)], "requestId") = lastCall.context.fields.requestId
         /\ Get(stdout.lines[Len(stdout.lines)], "ctid") = lastCall.context.fields.ctid
         /\ ("service" \in DOMAIN stdout.lines[Len(stdout.lines)].details.fields)
              <=> lastCall.logger = 2
    /\ (Called /\ ~Passed) => written = << >>

\* two lines from two calls: the root logger inside the second scope, then
\* the child logger in a continuation of the first scope that ran later
C28_Witness ==
  /\ stdout.spied
  /\ Len(stdout.lines) = 2
  /\ Len(scopeCtx) = 2
  /\ scopeCtx[1] # scopeCtx[2]
  /\ Get(stdout.lines[1], "ctid") = scopeCtx[2].ctid
  /\ "service" \notin DOMAIN stdout.lines[1].details.fields
  /\ Get(stdout.lines[2], "ctid") = scopeCtx[1].ctid
  /\ "service" \in DOMAIN stdout.lines[2].details.fields
  /\ lastCall.depth = 0
  /\ lastCall.scope = 1

\* C29: every started push settles, exactly once, resolved (2xx) or rejected
\* with a transport error, for every sequence of events (response end,
\* request error, request timeout, response closed before its end): a push
\* whose connection is over is settled, and the outcome is the one of the
\* first event, whatever events follow.
C29_EveryPushSettles ==
  \A r \in 1..Len(requests) :
    LET q == requests[r]
    IN  /\ q.conn \in {"ended", "errored", "closed"} =>
             q.promise \in {"resolved", "rejected"}
        /\ q.promise = "rejected" => q.error.name = Str("LokiTransportError")
        /\ q.promise # "pending" =>
             (q.promise = "resolved"
                <=> (/\ q.events[1].kind = "end"
                     /\ q.events[1].status >= 200 /\ q.events[1].status <= 299))

====
